---- MODULE Spec2Model ----
(***************************************************************************)
(* Model of the crypto-info MCP tool server (src/main.py) and of the       *)
(* assistant client (src/example/client.py).                               *)
(*                                                                         *)
(* Spec        the tool server: lifespan of the Telegram handle and the    *)
(*             three tools, one invocation in flight at a time, its        *)
(*             concurrent sub-fetches interleaved in every order.          *)
(* SpecClient  the chat loop of the client, one user turn after another.    *)
(* SpecBridge  the schema transform of the client applied to schema trees.  *)
(*                                                                         *)
(* The external services (HTTP APIs, Telegram, Gemini, the MCP transport)  *)
(* are the environment: every response or failure they can give is chosen  *)
(* nondeterministically in the action that receives it.                    *)
(***************************************************************************)
EXTENDS Integers, Sequences, FiniteSets, TLC

VARIABLES
    \* ---- server: module globals of src/main.py
    apiKey,           \* COINGECKO_API_KEY is set
    tgEnv,            \* TELEGRAM_API_ID, _API_HASH and _SESSION_STRING are all set
    telegram_client,  \* the global handle: "None" or the name of the handle
    \* ---- server: the lifespan and the handles it created
    life,             \* "init", "serving", "stopped", "failed"
    created,          \* handles constructed so far
    connected,        \* handles whose connection is open
    startupClient,    \* value of telegram_client when startup finished
    \* ---- server: the tool invocation in flight
    tool,             \* "none", "overview", "coin", "news"
    hours,            \* argument of get_realtime_news
    sub,              \* the awaited sub-tasks, in the order given to gather
    yielded,          \* what each channel iteration yielded (environment)
    outcome,          \* how the last invocation ended
    lookups,          \* calls of _get_telegram_client in this invocation
    iters,            \* iter_messages iterations started in this invocation
    httpReqs,         \* HTTP requests sent in this invocation
    \* ---- client: CryptoAssistantClient
    session, chat, cpc, turns, sessions, modelCalls, toolCalls, events,
    firstResp, response, calledTool, turnResult, prevResult, chatAtEnd,
    \* ---- schema bridge
    schema, once, twice, bpc

serverVars == <<apiKey, tgEnv, telegram_client, life, created, connected,
                startupClient, tool, hours, sub, yielded, outcome, lookups,
                iters, httpReqs>>
clientVars == <<session, chat, cpc, turns, sessions, modelCalls, toolCalls, events,
                firstResp, response, calledTool, turnResult, prevResult, chatAtEnd>>
bridgeVars == <<schema, once, twice, bpc>>
vars == <<serverVars, clientVars, bridgeVars>>

(***************************************************************************)
(* Bounds of the model.                                                    *)
(***************************************************************************)
\* messages one channel iteration yields at most in the model
MaxMsgs == 2
\* message dates are minutes 1..MaxDate
MaxDate == 2
\* hours are tried from this far below the valid range to this far above it
HoursMargin == 1
\* user turns the chat loop of the client runs in the model
MaxTurns == 2
\* parts a response of the language model holds at most in the model
MaxParts == 2
\* nodes (mappings, sequences, scalars) a schema tree holds at most in the model
MaxNodes == 3

(***************************************************************************)
(* Python values.                                                          *)
(***************************************************************************)
\* a dict is a function from its keys; {} is the function with no key
EmptyDict == [k \in {} |-> ""]

\* dict.get(k, default)
Get(d, k, default) == IF k \in DOMAIN d THEN d[k] ELSE default

\* truth value of a dict or a list
Truthy(x) == DOMAIN x # {}

\* the string 'N/A', as characters
NA == <<"N", "/", "A">>

Min(a, b) == IF a < b THEN a ELSE b

\* str.replace('\n', ' ')
ReplaceNewlines(t) == [i \in 1..Len(t) |-> IF t[i] = "nl" THEN "sp" ELSE t[i]]

RECURSIVE LStrip(_)
LStrip(t) == IF t # <<>> /\ Head(t) = "sp" THEN LStrip(Tail(t)) ELSE t

RECURSIVE RStrip(_)
RStrip(t) ==
    IF t # <<>> /\ t[Len(t)] = "sp" THEN RStrip(SubSeq(t, 1, Len(t) - 1)) ELSE t

\* str.strip(), on a text whose only whitespace is the space
Strip(t) == RStrip(LStrip(t))

\* text.replace('\n', ' ').strip()
CleanText(t) == Strip(ReplaceNewlines(t))

\* str.upper() on the characters the model uses
UpperChar(c) ==
    CASE c = "b" -> "B" [] c = "t" -> "T" [] c = "c" -> "C" [] OTHER -> c

Upper(s) == [i \in 1..Len(s) |-> UpperChar(s[i])]

\* f"{n:,}" for a non-negative integer: its groups of three digits
RECURSIVE Commas(_)
Commas(n) == IF n < 1000 THEN <<n>> ELSE Append(Commas(n \div 1000), n % 1000)

\* f"{x:.1f}" for x given in hundredths: the value in tenths, rounded
\* (the model's values are no ties)
Fmt1(x) == (x + 5) \div 10

(***************************************************************************)
(* Task results and invocation outcomes.                                   *)
(***************************************************************************)
Waiting == [st |-> "waiting", val |-> <<>>]
Done(v) == [st |-> "done", val |-> v]
Raised(e) == [st |-> "raised", val |-> e]

Finished(t) == t.st \in {"done", "raised"}

\* the place a task that finishes now takes among the tasks ts
NthToFinish(ts) == Cardinality({i \in 1..Len(ts) : Finished(ts[i])}) + 1

NoOutcome == [tool |-> "none", kind |-> "none", exc |-> "", msg |-> "", report |-> <<>>]
Return(t, r) == [tool |-> t, kind |-> "return", exc |-> "", msg |-> "", report |-> r]
Raise(t, e, m) == [tool |-> t, kind |-> "raise", exc |-> e, msg |-> m, report |-> <<>>]

\* a line of a report
Line(tag, a, b) == [tag |-> tag, a |-> a, b |-> b]

(***************************************************************************)
(* asyncio.gather over tasks that may still be waiting.                    *)
(* With return_exceptions the result is the list of every task's value or  *)
(* exception once all have finished; without it the first exception is     *)
(* propagated as soon as a task raises.                                    *)
(***************************************************************************)
AsyncioGather(ts, return_exceptions) ==
    LET raisedAt == {i \in 1..Len(ts) : ts[i].st = "raised"}
        first == CHOOSE i \in raisedAt : \A j \in raisedAt : i <= j
    IN  IF ~return_exceptions /\ raisedAt # {}
        THEN Raised(ts[first].val)
        ELSE IF \A i \in 1..Len(ts) : Finished(ts[i])
        THEN Done([i \in 1..Len(ts) |->
                    [isExc |-> ts[i].st = "raised", v |-> ts[i].val]])
        ELSE Waiting

(***************************************************************************)
(* The Telegram channel iteration, client.iter_messages(ch, limit=n).      *)
(* A message is [date, text]; text is empty for a message without text.    *)
(* With a limit of at most one page the iteration sends its request before *)
(* it yields the first message: it either fails then or yields a list.     *)
(***************************************************************************)
Texts == {<<>>, <<"nl", "b", "nl", "c", "sp">>}

Messages == [date : 1..MaxDate, text : Texts]

\* the lists of at most n messages in ascending date order (reverse=True)
Chronological(n) ==
    UNION {{s \in [1..k -> Messages] : \A i \in 1..k - 1 : s[i].date <= s[i + 1].date}
           : k \in 0..n}

\* what an iteration with the given limit can yield
Yields(limit) == Chronological(Min(limit, MaxMsgs))

\* what an iteration did: nothing yet, raised on its request, or yielded msgs;
\* nth: it was the nth of the invocation's sub-tasks to finish
NoIter == [st |-> "none", msgs |-> <<>>, nth |-> 0]
IterFailed(nth) == [st |-> "failed", msgs |-> <<>>, nth |-> nth]
IterYielded(msgs, nth) == [st |-> "yielded", msgs |-> msgs, nth |-> nth]

(***************************************************************************)
(* The client: CryptoAssistantClient of src/example/client.py.             *)
(*                                                                         *)
(* chat is the Gemini chat session: live is FALSE for None, id tells one   *)
(* session from another, hist counts the entries of its history.           *)
(* cpc is the place of main / chat_loop / process_query: "connect",        *)
(* "input", "list_tools", "send", "call_tool", "follow_up", "text",        *)
(* "exit".  response is the local of that name.  modelCalls, toolCalls and *)
(* events count and order the calls of send_message and call_tool the      *)
(* current turn has made; firstResp is the first response of the turn.     *)
(* turnResult tells how the last iteration of the loop ended, prevResult   *)
(* the one before, chatAtEnd the chat session the last iteration ended     *)
(* with (before the handler of the loop ran).                              *)
(***************************************************************************)
NoChat == [live |-> FALSE, id |-> 0, hist |-> 0]

\* model.start_chat(...): a new session with an empty history
StartChat(n) == [live |-> TRUE, id |-> n, hist |-> 0]

\* send_message returned: the request and the response join the history
Sent(c) == [c EXCEPT !.hist = c.hist + 2]

ToolNames == {"get_market_overview", "get_realtime_news"}

\* a part of a response: a function call of a tool, or text
Parts == {[fc |-> FALSE, name |-> ""]} \cup {[fc |-> TRUE, name |-> n] : n \in ToolNames}

\* the responses of the language model
Responses == UNION {[1..k -> Parts] : k \in 0..MaxParts}

NoResponse == [got |-> FALSE, parts |-> <<>>]

\* response.text raises unless every part of the response is text
HasText(parts) == Len(parts) > 0 /\ \A i \in 1..Len(parts) : ~parts[i].fc

\* the handler of the loop keeps the chat session
KeepChat(c) == c

\* except Exception in chat_loop: self.chat = None
OnException(c) == NoChat

\* response.parts[0] and the test of its function_call
Dispatch(parts) ==
    IF Len(parts) = 0 THEN "IndexError"
    ELSE IF parts[1].fc THEN "call_tool" ELSE "text"

\* the follow-up response is dispatched like the first one
DispatchAgain(parts) == IF Len(parts) > 0 /\ parts[1].fc THEN "call_tool" ELSE "text"

\* after the follow-up send_message the function goes on to return
\* response.text, whatever the parts of the follow-up response
AfterFollowUp(parts) == "text"

\* an exception reaches the handler of chat_loop while the chat session is c
TurnFails(c) ==
    /\ chatAtEnd' = c
    /\ chat' = OnException(c)
    /\ turnResult' = "error"
    /\ cpc' = "input"

\* main: connect succeeds and chat_loop starts
Connect ==
    /\ cpc = "connect"
    /\ session' = TRUE
    /\ cpc' = "input"
    /\ UNCHANGED <<serverVars, bridgeVars>>
    /\ UNCHANGED <<chat, turns, sessions, modelCalls, toolCalls, events, firstResp,
                   response, calledTool, turnResult, prevResult, chatAtEnd>>

\* main: connect raises, the client cleans up and ends
ConnectFails ==
    /\ cpc = "connect"
    /\ cpc' = "exit"
    /\ UNCHANGED <<serverVars, bridgeVars>>
    /\ UNCHANGED <<session, chat, turns, sessions, modelCalls, toolCalls, events,
                   firstResp, response, calledTool, turnResult, prevResult, chatAtEnd>>

\* 'quit' or 'exit': break
InputQuit ==
    /\ cpc = "input"
    /\ cpc' = "exit"
    /\ prevResult' = turnResult
    /\ turnResult' = "quit"
    /\ UNCHANGED <<serverVars, bridgeVars>>
    /\ UNCHANGED <<session, chat, turns, sessions, modelCalls, toolCalls, events,
                   firstResp, response, calledTool, chatAtEnd>>

\* an empty line: continue
InputEmpty ==
    /\ cpc = "input"
    /\ UNCHANGED vars

\* input() raises (end of input): the handler of the loop runs
InputFails ==
    /\ cpc = "input"
    /\ turns < MaxTurns
    /\ turns' = turns + 1
    /\ prevResult' = turnResult
    /\ modelCalls' = 0
    /\ toolCalls' = 0
    /\ events' = <<>>
    /\ firstResp' = NoResponse
    /\ response' = <<>>
    /\ calledTool' = ""
    /\ TurnFails(chat)
    /\ UNCHANGED <<serverVars, bridgeVars>>
    /\ UNCHANGED <<session, sessions>>

\* a query: process_query is called; the session is there after connect
InputQuery ==
    /\ cpc = "input"
    /\ turns < MaxTurns
    /\ session
    /\ turns' = turns + 1
    /\ prevResult' = turnResult
    /\ turnResult' = "running"
    /\ modelCalls' = 0
    /\ toolCalls' = 0
    /\ events' = <<>>
    /\ firstResp' = NoResponse
    /\ response' = <<>>
    /\ calledTool' = ""
    /\ cpc' = "list_tools"
    /\ UNCHANGED <<serverVars, bridgeVars>>
    /\ UNCHANGED <<session, chat, sessions, chatAtEnd>>

\* list_tools returns; a chat session is started if there is none
ListTools ==
    /\ cpc = "list_tools"
    /\ IF chat.live
       THEN UNCHANGED <<chat, sessions>>
       ELSE /\ chat' = StartChat(sessions + 1)
            /\ sessions' = sessions + 1
    /\ cpc' = "send"
    /\ UNCHANGED <<serverVars, bridgeVars>>
    /\ UNCHANGED <<session, turns, modelCalls, toolCalls, events, firstResp,
                   response, calledTool, turnResult, prevResult, chatAtEnd>>

ListToolsFails ==
    /\ cpc = "list_tools"
    /\ TurnFails(chat)
    /\ UNCHANGED <<serverVars, bridgeVars>>
    /\ UNCHANGED <<session, turns, sessions, modelCalls, toolCalls, events,
                   firstResp, response, calledTool, prevResult>>

\* chat.send_message(query) returns a response; its first part is inspected
SendMessage ==
    /\ cpc = "send"
    /\ modelCalls' = modelCalls + 1
    /\ events' = Append(events, "model")
    /\ \E parts \in Responses :
          /\ firstResp' = [got |-> TRUE, parts |-> parts]
          /\ response' = parts
          /\ IF Dispatch(parts) = "IndexError"
             THEN TurnFails(Sent(chat))
             ELSE /\ chat' = Sent(chat)
                  /\ cpc' = Dispatch(parts)
                  /\ UNCHANGED <<turnResult, chatAtEnd>>
    /\ UNCHANGED <<serverVars, bridgeVars>>
    /\ UNCHANGED <<session, turns, sessions, toolCalls, calledTool, prevResult>>

SendMessageFails ==
    /\ cpc = "send"
    /\ modelCalls' = modelCalls + 1
    /\ events' = Append(events, "model")
    /\ TurnFails(chat)
    /\ UNCHANGED <<serverVars, bridgeVars>>
    /\ UNCHANGED <<session, turns, sessions, toolCalls, firstResp, response,
                   calledTool, prevResult>>

\* session.call_tool(fc.name, fc.args) of the inspected part returns
CallTool ==
    /\ cpc = "call_tool"
    /\ toolCalls' = toolCalls + 1
    /\ events' = Append(events, "tool")
    /\ calledTool' = response[1].name
    /\ cpc' = "follow_up"
    /\ UNCHANGED <<serverVars, bridgeVars>>
    /\ UNCHANGED <<session, chat, turns, sessions, modelCalls, firstResp, response,
                   turnResult, prevResult, chatAtEnd>>

CallToolFails ==
    /\ cpc = "call_tool"
    /\ toolCalls' = toolCalls + 1
    /\ events' = Append(events, "tool")
    /\ calledTool' = response[1].name
    /\ TurnFails(chat)
    /\ UNCHANGED <<serverVars, bridgeVars>>
    /\ UNCHANGED <<session, turns, sessions, modelCalls, firstResp, response,
                   prevResult>>

\* chat.send_message([function_response]) returns the follow-up response
FollowUp ==
    /\ cpc = "follow_up"
    /\ modelCalls' = modelCalls + 1
    /\ events' = Append(events, "model")
    /\ chat' = Sent(chat)
    /\ \E parts \in Responses :
          /\ response' = parts
          /\ cpc' = AfterFollowUp(parts)
    /\ UNCHANGED <<serverVars, bridgeVars>>
    /\ UNCHANGED <<session, turns, sessions, toolCalls, firstResp, calledTool,
                   turnResult, prevResult, chatAtEnd>>

FollowUpFails ==
    /\ cpc = "follow_up"
    /\ modelCalls' = modelCalls + 1
    /\ events' = Append(events, "model")
    /\ TurnFails(chat)
    /\ UNCHANGED <<serverVars, bridgeVars>>
    /\ UNCHANGED <<session, turns, sessions, toolCalls, firstResp, response,
                   calledTool, prevResult>>

\* return response.text; chat_loop prints the answer
ReturnText ==
    /\ cpc = "text"
    /\ HasText(response)
    /\ chatAtEnd' = chat
    /\ turnResult' = "answer"
    /\ cpc' = "input"
    /\ UNCHANGED <<serverVars, bridgeVars>>
    /\ UNCHANGED <<session, chat, turns, sessions, modelCalls, toolCalls, events,
                   firstResp, response, calledTool, prevResult>>

\* response.text raises (a part that is no text, a blocked response)
ReturnTextFails ==
    /\ cpc = "text"
    /\ TurnFails(chat)
    /\ UNCHANGED <<serverVars, bridgeVars>>
    /\ UNCHANGED <<session, turns, sessions, modelCalls, toolCalls, events,
                   firstResp, response, calledTool, prevResult>>

(***************************************************************************)
(* The schema bridge of the client.  A schema is a tree of Python values:  *)
(* a dict (its keys in order, one child per key), a list (its items) or a  *)
(* scalar.                                                                 *)
(***************************************************************************)
Scalar(v) == [kind |-> "scalar", keys |-> <<>>, kids |-> <<>>, val |-> v]
List(items) == [kind |-> "list", keys |-> <<>>, kids |-> items, val |-> ""]
Dict(keys, values) == [kind |-> "dict", keys |-> keys, kids |-> values, val |-> ""]

SchemaKeys == {"title", "default", "type", "items"}
ScalarValues == {"string", "1"}

\* the orders in which k different keys can stand in a dict
KeySeqs(k) == {ks \in [1..k -> SchemaKeys] : \A i, j \in 1..k : i # j => ks[i] # ks[j]}

\* the trees of exactly n nodes, and the sequences of trees of n nodes in all
RECURSIVE TreesOfSize(_), Forests(_)
TreesOfSize(n) ==
    IF n = 1
    THEN {Scalar(v) : v \in ScalarValues} \cup {List(<<>>), Dict(<<>>, <<>>)}
    ELSE {List(f) : f \in Forests(n - 1)}
            \cup UNION {{Dict(ks, f) : ks \in KeySeqs(Len(f))} : f \in Forests(n - 1)}

Forests(n) ==
    IF n = 0 THEN {<<>>}
    ELSE UNION {{<<t>> \o f : t \in TreesOfSize(m), f \in Forests(n - m)} : m \in 1..n}

Schemas == UNION {TreesOfSize(n) : n \in 1..MaxNodes}

\* keys_to_remove of _mcp_tools_to_gemini_tools
KeysToRemove == {"title", "default"}

\* the places of the keys that are not in ks, in order, from place i on
RECURSIVE KeptFrom(_, _, _)
KeptFrom(keys, ks, i) ==
    IF i > Len(keys) THEN <<>>
    ELSE (IF keys[i] \notin ks THEN <<i>> ELSE <<>>) \o KeptFrom(keys, ks, i + 1)

\* the transform without its list branch: lists are returned as they are
RECURSIVE RemoveKeysInDictsOnly(_, _)
RemoveKeysInDictsOnly(obj, keys_to_remove) ==
    IF obj.kind = "dict"
    THEN LET kept == KeptFrom(obj.keys, keys_to_remove, 1)
         IN  Dict([j \in 1..Len(kept) |-> obj.keys[kept[j]]],
                  [j \in 1..Len(kept) |->
                      RemoveKeysInDictsOnly(obj.kids[kept[j]], keys_to_remove)])
    ELSE obj

\* _remove_keys_recursively
RECURSIVE RemoveKeysRecursively(_, _)
RemoveKeysRecursively(obj, keys_to_remove) ==
    IF obj.kind = "dict"
    THEN LET kept == KeptFrom(obj.keys, keys_to_remove, 1)
         IN  Dict([j \in 1..Len(kept) |-> obj.keys[kept[j]]],
                  [j \in 1..Len(kept) |->
                      RemoveKeysRecursively(obj.kids[kept[j]], keys_to_remove)])
    ELSE IF obj.kind = "list"
    THEN List([i \in 1..Len(obj.kids) |->
                  RemoveKeysRecursively(obj.kids[i], keys_to_remove)])
    ELSE obj

\* _mcp_tools_to_gemini_tools on the inputSchema of a tool
ConvertSchema ==
    /\ bpc = "schema"
    /\ once' = RemoveKeysRecursively(schema, KeysToRemove)
    /\ bpc' = "once"
    /\ UNCHANGED <<serverVars, clientVars>>
    /\ UNCHANGED <<schema, twice>>

\* the transform applied to its own result
ConvertAgain ==
    /\ bpc = "once"
    /\ twice' = RemoveKeysRecursively(once, KeysToRemove)
    /\ bpc' = "twice"
    /\ UNCHANGED <<serverVars, clientVars>>
    /\ UNCHANGED <<schema, once>>

(***************************************************************************)
(* lifespan: the handle is made at startup and released at shutdown.       *)
(***************************************************************************)
None == "None"
Handle == "client"

\* not all([...]): the Telegram features are switched off
StartupNoCredentials ==
    /\ life = "init"
    /\ ~tgEnv
    /\ life' = "serving"
    /\ startupClient' = telegram_client
    /\ UNCHANGED <<clientVars, bridgeVars>>
    /\ UNCHANGED <<apiKey, tgEnv, telegram_client, created, connected, tool, hours,
                   sub, yielded, outcome, lookups, iters, httpReqs>>

\* client.connect() raises: the lifespan never yields
StartupConnectFails ==
    /\ life = "init"
    /\ tgEnv
    /\ created' = created \cup {Handle}
    /\ life' = "failed"
    /\ UNCHANGED <<clientVars, bridgeVars>>
    /\ UNCHANGED <<apiKey, tgEnv, telegram_client, connected, startupClient, tool,
                   hours, sub, yielded, outcome, lookups, iters, httpReqs>>

\* connected, but is_user_authorized() is false: the global is set to None
StartupUnauthorized ==
    /\ life = "init"
    /\ tgEnv
    /\ created' = created \cup {Handle}
    /\ connected' = connected \cup {Handle}
    /\ telegram_client' = None
    /\ startupClient' = None
    /\ life' = "serving"
    /\ UNCHANGED <<clientVars, bridgeVars>>
    /\ UNCHANGED <<apiKey, tgEnv, tool, hours, sub, yielded, outcome, lookups,
                   iters, httpReqs>>

\* connected and authorized: the global holds the handle
StartupAuthorized ==
    /\ life = "init"
    /\ tgEnv
    /\ created' = created \cup {Handle}
    /\ connected' = connected \cup {Handle}
    /\ telegram_client' = Handle
    /\ startupClient' = Handle
    /\ life' = "serving"
    /\ UNCHANGED <<clientVars, bridgeVars>>
    /\ UNCHANGED <<apiKey, tgEnv, tool, hours, sub, yielded, outcome, lookups,
                   iters, httpReqs>>

\* the handles the code after the yield disconnects
Disconnected(client, conn) ==
    IF client # None /\ client \in conn THEN {client} ELSE {}

\* after the yield: disconnect the global handle if there is one and it is connected
LifespanShutdown ==
    /\ life = "serving"
    /\ tool = "none"
    /\ connected' = connected \ Disconnected(telegram_client, connected)
    /\ life' = "stopped"
    /\ UNCHANGED <<clientVars, bridgeVars>>
    /\ UNCHANGED <<apiKey, tgEnv, telegram_client, created, startupClient, tool,
                   hours, sub, yielded, outcome, lookups, iters, httpReqs>>

(***************************************************************************)
(* _get_telegram_client                                                    *)
(***************************************************************************)
\* the check for None left out
GetTelegramClientUnchecked(client) == Done(client)

GetTelegramClient(client) ==
    IF client = None THEN Raised("FastMCPError") ELSE Done(client)

(***************************************************************************)
(* HTTP responses. net: the request completed; status; valid: the body     *)
(* parses as JSON; hasData/data: the body's 'data' entry.                  *)
(***************************************************************************)
HttpResponse(net, status, valid, hasData, data) ==
    [net |-> net, status |-> status, valid |-> valid, hasData |-> hasData, data |-> data]

NetworkError == HttpResponse(FALSE, 0, FALSE, FALSE, <<>>)
StatusError(s) == HttpResponse(TRUE, s, FALSE, FALSE, <<>>)
BadBody == HttpResponse(TRUE, 200, FALSE, FALSE, <<>>)
NoData == HttpResponse(TRUE, 200, TRUE, FALSE, <<>>)
Data(d) == HttpResponse(TRUE, 200, TRUE, TRUE, d)

\* raise_for_status() left out: every completed request passes
HttpOkUnchecked(r) == r.net

\* the request completed and raise_for_status() passes
HttpOk(r) == r.net /\ r.status \in 200..299

(***************************************************************************)
(* _fetch_fear_and_greed_index: response.json().get('data', [{}])[0], and  *)
(* {} on any exception (an empty 'data' list is an IndexError).            *)
(***************************************************************************)
FngDicts ==
    { EmptyDict,
      [value |-> "25", value_classification |-> "Extreme Fear"],
      [value |-> "25"] }

FngResponses ==
    {NetworkError, StatusError(500), BadBody, NoData, Data(<<>>)}
        \cup {Data(<<d>>) : d \in FngDicts}

FetchFearAndGreedIndex(r) ==
    IF ~HttpOk(r) \/ ~r.valid THEN EmptyDict
    ELSE LET data == IF r.hasData THEN r.data ELSE <<EmptyDict>>
         IN  IF Len(data) = 0 THEN EmptyDict ELSE data[1]

(***************************************************************************)
(* _fetch_global_market_data: {} without an API key (no request is sent),  *)
(* response.json().get('data', {}), and {} on any exception.               *)
(***************************************************************************)
GlobalDicts ==
    { EmptyDict,
      [active_cryptocurrencies |-> 17000],
      [market_cap_percentage |-> EmptyDict],
      [market_cap_percentage |-> [btc |-> 5742]],
      [market_cap_percentage |-> [btc |-> 5742, eth |-> 1208]] }

GlobalResponses ==
    {NetworkError, StatusError(500), BadBody, NoData} \cup {Data(d) : d \in GlobalDicts}

FetchGlobalMarketData(r) ==
    IF ~HttpOk(r) \/ ~r.valid THEN EmptyDict
    ELSE IF r.hasData THEN r.data ELSE EmptyDict

(***************************************************************************)
(* _fetch_whale_alerts: the texts of the messages that have one. An        *)
(* exception of the iteration is caught and logged, and the function       *)
(* returns what it collected before it.                                    *)
(***************************************************************************)
WhaleLimit == 5

RECURSIVE TextsOf(_)
TextsOf(msgs) ==
    IF msgs = <<>> THEN <<>>
    ELSE IF Head(msgs).text # <<>> THEN <<Head(msgs).text>> \o TextsOf(Tail(msgs))
    ELSE TextsOf(Tail(msgs))

\* it: what the iteration did, [st, msgs]: the messages it yielded, and
\* whether it then ended ("yielded") or raised ("failed")
FetchWhaleAlerts(it) == TextsOf(it.msgs)

(***************************************************************************)
(* get_market_overview                                                     *)
(***************************************************************************)
\* gather called without return_exceptions
GatherPropagates == FALSE

\* return_exceptions=True in the call of gather
OverviewReturnExceptions == TRUE

SentimentLines(fng) ==
    IF ~fng.isExc /\ Truthy(fng.v)
    THEN <<Line("sentiment", Get(fng.v, "value_classification", "N/A"),
                Get(fng.v, "value", "N/A"))>>
    ELSE <<>>

DominanceLines(glob) ==
    IF ~glob.isExc /\ Truthy(glob.v) /\ "market_cap_percentage" \in DOMAIN glob.v
    THEN LET pct == glob.v["market_cap_percentage"]
         IN  <<Line("dominance", Fmt1(Get(pct, "btc", 0)), Fmt1(Get(pct, "eth", 0)))>>
    ELSE <<>>

WhaleLines(whale) ==
    IF ~whale.isExc /\ Truthy(whale.v)
    THEN <<Line("whale_header", "", "")>>
            \o [i \in 1..Len(whale.v) |-> Line("whale", CleanText(whale.v[i]), "")]
    ELSE <<Line("whale_none", "", "")>>

\* the report, from the three values gather returned
RenderOverview(vals) ==
    <<Line("overview_header", "", "")>>
        \o SentimentLines(vals[1]) \o DominanceLines(vals[2]) \o WhaleLines(vals[3])

\* the call: gather starts the three coroutines, each runs to its first await
CallMarketOverview ==
    /\ life = "serving"
    /\ tool = "none"
    /\ tool' = "overview"
    /\ LET c == GetTelegramClient(telegram_client)
       IN  /\ sub' = << Waiting,
                        IF apiKey THEN Waiting ELSE Done(EmptyDict),
                        IF c.st = "raised" THEN c ELSE Waiting >>
           /\ iters' = IF c.st = "raised" THEN 0 ELSE 1
    /\ httpReqs' = IF apiKey THEN 2 ELSE 1
    /\ lookups' = 1
    /\ outcome' = NoOutcome
    /\ yielded' = <<NoIter, NoIter, NoIter>>
    /\ UNCHANGED <<clientVars, bridgeVars>>
    /\ UNCHANGED <<apiKey, tgEnv, telegram_client, life, created, connected,
                   startupClient, hours>>

FearAndGreedResponds ==
    /\ tool = "overview"
    /\ sub[1].st = "waiting"
    /\ \E r \in FngResponses : sub' = [sub EXCEPT ![1] = Done(FetchFearAndGreedIndex(r))]
    /\ UNCHANGED <<clientVars, bridgeVars>>
    /\ UNCHANGED <<apiKey, tgEnv, telegram_client, life, created, connected,
                   startupClient, tool, hours, yielded, outcome, lookups, iters, httpReqs>>

GlobalMarketResponds ==
    /\ tool = "overview"
    /\ sub[2].st = "waiting"
    /\ \E r \in GlobalResponses : sub' = [sub EXCEPT ![2] = Done(FetchGlobalMarketData(r))]
    /\ UNCHANGED <<clientVars, bridgeVars>>
    /\ UNCHANGED <<apiKey, tgEnv, telegram_client, life, created, connected,
                   startupClient, tool, hours, yielded, outcome, lookups, iters, httpReqs>>

WhaleIterationFails ==
    /\ tool = "overview"
    /\ sub[3].st = "waiting"
    /\ sub' = [sub EXCEPT ![3] = Done(FetchWhaleAlerts(IterFailed(NthToFinish(sub))))]
    /\ yielded' = [yielded EXCEPT ![3] = IterFailed(NthToFinish(sub))]
    /\ UNCHANGED <<clientVars, bridgeVars>>
    /\ UNCHANGED <<apiKey, tgEnv, telegram_client, life, created, connected,
                   startupClient, tool, hours, outcome, lookups, iters, httpReqs>>

WhaleIterationYields ==
    /\ tool = "overview"
    /\ sub[3].st = "waiting"
    /\ \E msgs \in Yields(WhaleLimit) :
          /\ sub' = [sub EXCEPT ![3] =
                        Done(FetchWhaleAlerts(IterYielded(msgs, NthToFinish(sub))))]
          /\ yielded' = [yielded EXCEPT ![3] = IterYielded(msgs, NthToFinish(sub))]
    /\ UNCHANGED <<clientVars, bridgeVars>>
    /\ UNCHANGED <<apiKey, tgEnv, telegram_client, life, created, connected,
                   startupClient, tool, hours, outcome, lookups, iters, httpReqs>>

\* the fan-in of gather and the rest of the handler
OverviewReturns ==
    /\ tool = "overview"
    /\ LET g == AsyncioGather(sub, OverviewReturnExceptions)
       IN  /\ g.st # "waiting"
           /\ outcome' = IF g.st = "raised"
                         THEN Raise("overview", g.val, "sub-fetch")
                         ELSE Return("overview", RenderOverview(g.val))
    /\ tool' = "ended"
    /\ UNCHANGED <<clientVars, bridgeVars>>
    /\ UNCHANGED <<apiKey, tgEnv, telegram_client, life, created, connected,
                   startupClient, hours, sub, yielded, lookups, iters, httpReqs>>

(***************************************************************************)
(* get_coin_details                                                        *)
(***************************************************************************)
CoinIds == {"bitcoin", "__unknown__"}

\* the JSON object of a coin (the whole body of the response)
CoinDicts ==
    { EmptyDict,
      [name |-> "Bitcoin", symbol |-> <<"b", "t", "c">>, market_cap_rank |-> 1,
       market_data |-> [current_price |-> [krw |-> 98765432]],
       links |-> [homepage |-> <<"https://bitcoin.org">>]],
      [name |-> "Bitcoin", symbol |-> <<"b", "t", "c">>, market_cap_rank |-> 1,
       market_data |-> [current_price |-> EmptyDict],
       links |-> [homepage |-> <<"https://bitcoin.org", "">>]],
      [name |-> "Bitcoin", symbol |-> <<"b", "t", "c">>,
       links |-> [homepage |-> <<>>]] }

CoinResponses ==
    {NetworkError, StatusError(404), StatusError(500), BadBody}
        \cup {Data(d) : d \in CoinDicts}

PriceLine(details) ==
    LET price == Get(Get(details, "market_data", EmptyDict), "current_price", EmptyDict)
    IN  IF "krw" \in DOMAIN price
        THEN Line("price", Commas(price["krw"]), "")
        ELSE Line("price_raw", "N/A", "")

\* the four lines; homepage is the non-empty list of the coin's homepages
CoinReport(details, homepage) ==
    << Line("title", Get(details, "name", "N/A"), Upper(Get(details, "symbol", NA))),
       Line("rank", Get(details, "market_cap_rank", "N/A"), ""),
       PriceLine(details),
       Line("homepage", homepage[1], "") >>

\* the try block and its two except clauses, on the response r
CoinDetailsResult(r) ==
    IF ~r.net THEN Raise("coin", "FastMCPError", "fetch failed")
    ELSE IF ~HttpOk(r)
    THEN IF r.status = 404
         THEN Raise("coin", "FastMCPError", "not found")
         ELSE Raise("coin", "FastMCPError", "api error")
    ELSE IF ~r.valid THEN Raise("coin", "FastMCPError", "fetch failed")
    ELSE LET homepage == Get(Get(r.data, "links", EmptyDict), "homepage", <<"N/A">>)
         IN  IF Len(homepage) = 0
             THEN Raise("coin", "FastMCPError", "fetch failed")
             ELSE Return("coin", CoinReport(r.data, homepage))

\* no API key: the domain error is raised at once
CoinDetailsNoKey ==
    /\ life = "serving"
    /\ tool = "none"
    /\ tool' = "ended"
    /\ ~apiKey
    /\ \E coin_id \in CoinIds : outcome' = Raise("coin", "FastMCPError", "no api key")
    /\ httpReqs' = 0
    /\ lookups' = 0
    /\ iters' = 0
    /\ sub' = <<>>
    /\ yielded' = <<>>
    /\ UNCHANGED <<clientVars, bridgeVars>>
    /\ UNCHANGED <<apiKey, tgEnv, telegram_client, life, created, connected,
                   startupClient, hours>>

\* the request is sent
CallCoinDetails ==
    /\ life = "serving"
    /\ tool = "none"
    /\ apiKey
    /\ \E coin_id \in CoinIds : tool' = "coin"
    /\ httpReqs' = 1
    /\ lookups' = 0
    /\ iters' = 0
    /\ sub' = <<Waiting>>
    /\ yielded' = <<>>
    /\ outcome' = NoOutcome
    /\ UNCHANGED <<clientVars, bridgeVars>>
    /\ UNCHANGED <<apiKey, tgEnv, telegram_client, life, created, connected,
                   startupClient, hours>>

CoinDetailsResponds ==
    /\ tool = "coin"
    /\ \E r \in CoinResponses :
          /\ sub' = <<Done(r)>>
          /\ outcome' = CoinDetailsResult(r)
    /\ tool' = "ended"
    /\ UNCHANGED <<clientVars, bridgeVars>>
    /\ UNCHANGED <<apiKey, tgEnv, telegram_client, life, created, connected,
                   startupClient, hours, yielded, lookups, iters, httpReqs>>

(***************************************************************************)
(* get_realtime_news                                                       *)
(***************************************************************************)
HoursLo == 1
HoursHi == 72
NewsLimit == 10

Channels == <<"wublockchainenglish", "watcherguru">>

\* return_exceptions is not given in the call of gather
NewsReturnExceptions == FALSE

\* the hours the model calls the tool with
HoursTried ==
    (HoursLo - HoursMargin .. HoursLo) \cup (HoursHi .. HoursHi + HoursMargin)

\* the upper end off by one
ValidHoursOffByOne(h) == HoursLo <= h /\ h <= HoursHi + 1

\* 1 <= hours <= 72
ValidHours(h) == HoursLo <= h /\ h <= HoursHi

\* msg.date.strftime('%m-%d %H:%M'): dates are in half minutes, the label
\* keeps the minute
StrfTime(date) == date \div 2

NewsLine(ch, msg) ==
    [tag |-> "news", a |-> StrfTime(msg.date), b |-> CleanText(msg.text), ch |-> ch]

\* the lines of the messages that have a text, in the order yielded
RECURSIVE NewsLines(_, _)
NewsLines(ch, msgs) ==
    IF msgs = <<>> THEN <<>>
    ELSE IF Head(msgs).text # <<>>
    THEN <<NewsLine(ch, Head(msgs))>> \o NewsLines(ch, Tail(msgs))
    ELSE NewsLines(ch, Tail(msgs))

\* fetch_for_channel: no try around the iteration
FetchForChannel(ch, it) ==
    IF it.st = "failed" THEN Raised("UpstreamError") ELSE Done(NewsLines(ch, it.msgs))

\* two lists of lines merged by their date labels
RECURSIVE MergeByDate(_, _)
MergeByDate(xs, ys) ==
    IF xs = <<>> THEN ys
    ELSE IF ys = <<>> THEN xs
    ELSE IF Head(xs).a <= Head(ys).a
    THEN <<Head(xs)>> \o MergeByDate(Tail(xs), ys)
    ELSE <<Head(ys)>> \o MergeByDate(xs, Tail(ys))

\* the channels' lines merged into one timeline
RECURSIVE AllMessagesByDate(_)
AllMessagesByDate(results) ==
    IF results = <<>> THEN <<>>
    ELSE MergeByDate(Head(results).v, AllMessagesByDate(Tail(results)))

\* [msg for sublist in results for msg in sublist]
RECURSIVE AllMessages(_)
AllMessages(results) ==
    IF results = <<>> THEN <<>> ELSE Head(results).v \o AllMessages(Tail(results))

\* the text returned, from the lists gather returned
RenderNews(h, results) ==
    LET all_messages == AllMessages(results)
    IN  IF Len(all_messages) = 0
        THEN <<[tag |-> "news_none", a |-> h, b |-> <<>>, ch |-> ""]>>
        ELSE <<[tag |-> "news_header", a |-> h, b |-> <<>>, ch |-> ""]>> \o all_messages

\* hours out of range: rejected on entry
NewsRejectsHours ==
    /\ life = "serving"
    /\ tool = "none"
    /\ tool' = "ended"
    /\ \E h \in HoursTried :
          /\ ~ValidHours(h)
          /\ hours' = h
    /\ outcome' = Raise("news", "FastMCPError", "hours")
    /\ lookups' = 0
    /\ iters' = 0
    /\ httpReqs' = 0
    /\ sub' = <<>>
    /\ yielded' = <<>>
    /\ UNCHANGED <<clientVars, bridgeVars>>
    /\ UNCHANGED <<apiKey, tgEnv, telegram_client, life, created, connected,
                   startupClient>>

\* hours in range, no handle: _get_telegram_client raises
NewsNoClient ==
    /\ life = "serving"
    /\ tool = "none"
    /\ tool' = "ended"
    /\ \E h \in HoursTried :
          /\ ValidHours(h)
          /\ hours' = h
    /\ GetTelegramClient(telegram_client).st = "raised"
    /\ outcome' = Raise("news", GetTelegramClient(telegram_client).val, "no client")
    /\ lookups' = 1
    /\ iters' = 0
    /\ httpReqs' = 0
    /\ sub' = <<>>
    /\ yielded' = <<>>
    /\ UNCHANGED <<clientVars, bridgeVars>>
    /\ UNCHANGED <<apiKey, tgEnv, telegram_client, life, created, connected,
                   startupClient>>

\* hours in range and a handle: gather starts one iteration per channel
CallRealtimeNews ==
    /\ life = "serving"
    /\ tool = "none"
    /\ \E h \in HoursTried :
          /\ ValidHours(h)
          /\ hours' = h
    /\ GetTelegramClient(telegram_client).st = "done"
    /\ tool' = "news"
    /\ outcome' = NoOutcome
    /\ lookups' = 1
    /\ iters' = Len(Channels)
    /\ httpReqs' = 0
    /\ sub' = [i \in 1..Len(Channels) |-> Waiting]
    /\ yielded' = [i \in 1..Len(Channels) |-> NoIter]
    /\ UNCHANGED <<clientVars, bridgeVars>>
    /\ UNCHANGED <<apiKey, tgEnv, telegram_client, life, created, connected,
                   startupClient>>

ChannelIterationFails(i) ==
    /\ tool = "news"
    /\ sub[i].st = "waiting"
    /\ sub' = [sub EXCEPT ![i] = FetchForChannel(Channels[i], IterFailed(NthToFinish(sub)))]
    /\ yielded' = [yielded EXCEPT ![i] = IterFailed(NthToFinish(sub))]
    /\ UNCHANGED <<clientVars, bridgeVars>>
    /\ UNCHANGED <<apiKey, tgEnv, telegram_client, life, created, connected,
                   startupClient, tool, hours, outcome, lookups, iters, httpReqs>>

ChannelIterationYields(i) ==
    /\ tool = "news"
    /\ sub[i].st = "waiting"
    /\ \E msgs \in Yields(NewsLimit) :
          /\ sub' = [sub EXCEPT ![i] =
                        FetchForChannel(Channels[i], IterYielded(msgs, NthToFinish(sub)))]
          /\ yielded' = [yielded EXCEPT ![i] = IterYielded(msgs, NthToFinish(sub))]
    /\ UNCHANGED <<clientVars, bridgeVars>>
    /\ UNCHANGED <<apiKey, tgEnv, telegram_client, life, created, connected,
                   startupClient, tool, hours, outcome, lookups, iters, httpReqs>>

\* the fan-in of gather and the rest of the handler
NewsReturns ==
    /\ tool = "news"
    /\ LET g == AsyncioGather(sub, NewsReturnExceptions)
       IN  /\ g.st # "waiting"
           /\ outcome' = IF g.st = "raised"
                         THEN Raise("news", g.val, "channel")
                         ELSE Return("news", RenderNews(hours, g.val))
    /\ tool' = "ended"
    /\ UNCHANGED <<clientVars, bridgeVars>>
    /\ UNCHANGED <<apiKey, tgEnv, telegram_client, life, created, connected,
                   startupClient, hours, sub, yielded, lookups, iters, httpReqs>>

(***************************************************************************)
(* The result or the error of the invocation goes back to the caller and   *)
(* the invocation's locals are gone.                                       *)
(***************************************************************************)
Deliver ==
    /\ tool = "ended"
    /\ tool' = "none"
    /\ hours' = HoursLo
    /\ sub' = <<>>
    /\ yielded' = <<>>
    /\ outcome' = NoOutcome
    /\ lookups' = 0
    /\ iters' = 0
    /\ httpReqs' = 0
    /\ UNCHANGED <<clientVars, bridgeVars>>
    /\ UNCHANGED <<apiKey, tgEnv, telegram_client, life, created, connected,
                   startupClient>>

(***************************************************************************)
(* The tool server.                                                        *)
(***************************************************************************)
ClientIdle ==
    /\ session = FALSE /\ chat = NoChat /\ cpc = "idle" /\ turns = 0
    /\ sessions = 0 /\ modelCalls = 0 /\ toolCalls = 0 /\ events = <<>>
    /\ firstResp = NoResponse /\ response = <<>> /\ calledTool = ""
    /\ turnResult = "none"
    /\ prevResult = "none" /\ chatAtEnd = NoChat

BridgeIdle ==
    /\ schema = Scalar("") /\ once = Scalar("") /\ twice = Scalar("") /\ bpc = "idle"

Init ==
    /\ apiKey \in BOOLEAN
    /\ tgEnv \in BOOLEAN
    /\ telegram_client = None
    /\ life = "init"
    /\ created = {}
    /\ connected = {}
    /\ startupClient = None
    /\ tool = "none"
    /\ hours = HoursLo
    /\ sub = <<>>
    /\ yielded = <<>>
    /\ outcome = NoOutcome
    /\ lookups = 0
    /\ iters = 0
    /\ httpReqs = 0
    /\ ClientIdle
    /\ BridgeIdle

Next ==
    \/ StartupNoCredentials
    \/ StartupConnectFails
    \/ StartupUnauthorized
    \/ StartupAuthorized
    \/ LifespanShutdown
    \/ CallMarketOverview
    \/ FearAndGreedResponds
    \/ GlobalMarketResponds
    \/ WhaleIterationFails
    \/ WhaleIterationYields
    \/ OverviewReturns
    \/ CoinDetailsNoKey
    \/ CallCoinDetails
    \/ CoinDetailsResponds
    \/ NewsRejectsHours
    \/ NewsNoClient
    \/ CallRealtimeNews
    \/ \E i \in 1..Len(Channels) : ChannelIterationFails(i)
    \/ \E i \in 1..Len(Channels) : ChannelIterationYields(i)
    \/ NewsReturns
    \/ Deliver

Spec == Init /\ [][Next]_vars

(***************************************************************************)
(* The client.                                                             *)
(***************************************************************************)
ServerIdle ==
    /\ apiKey = FALSE /\ tgEnv = FALSE /\ telegram_client = None /\ life = "idle"
    /\ created = {} /\ connected = {} /\ startupClient = None /\ tool = "idle"
    /\ hours = HoursLo /\ sub = <<>> /\ yielded = <<>> /\ outcome = NoOutcome
    /\ lookups = 0 /\ iters = 0 /\ httpReqs = 0

InitClient ==
    /\ session = FALSE
    /\ chat = NoChat
    /\ cpc = "connect"
    /\ turns = 0
    /\ sessions = 0
    /\ modelCalls = 0
    /\ toolCalls = 0
    /\ events = <<>>
    /\ firstResp = NoResponse
    /\ response = <<>>
    /\ calledTool = ""
    /\ turnResult = "none"
    /\ prevResult = "none"
    /\ chatAtEnd = NoChat
    /\ ServerIdle
    /\ BridgeIdle

NextClient ==
    \/ Connect
    \/ ConnectFails
    \/ InputQuit
    \/ InputEmpty
    \/ InputFails
    \/ InputQuery
    \/ ListTools
    \/ ListToolsFails
    \/ SendMessage
    \/ SendMessageFails
    \/ CallTool
    \/ CallToolFails
    \/ FollowUp
    \/ FollowUpFails
    \/ ReturnText
    \/ ReturnTextFails

SpecClient == InitClient /\ [][NextClient]_vars

(***************************************************************************)
(* The schema bridge on every schema tree of the model.                    *)
(***************************************************************************)
InitBridge ==
    /\ schema \in Schemas
    /\ once = schema
    /\ twice = schema
    /\ bpc = "schema"
    /\ ServerIdle
    /\ ClientIdle

NextBridge ==
    \/ ConvertSchema
    \/ ConvertAgain

SpecBridge == InitBridge /\ [][NextBridge]_vars

(***************************************************************************)
(* Properties of the tool server.                                          *)
(***************************************************************************)
HasLine(report, tag) == \E i \in 1..Len(report) : report[i].tag = tag

CountLines(report, tag) == Cardinality({i \in 1..Len(report) : report[i].tag = tag})

\* an invocation of tool t has ended and its outcome is on record
Ended(t) == tool = "ended" /\ outcome.tool = t

\* C1: get_market_overview returns a non-empty report, and never raises, for
\* every combination of outcomes of its three sub-fetches, the absent handle
\* included: the report starts with the header line, holds the section of
\* every sub-fetch that came back with data (sentiment: a non-empty object;
\* dominance: an object with the percentages; whale alerts: one line per
\* text) whatever the other two did, and holds the placeholder line whenever
\* the channel fetch raised, its iteration failed, or it gave no text.
C1_OverviewAlwaysReports ==
    Ended("overview") =>
        /\ outcome.kind = "return"
        /\ Len(outcome.report) >= 2
        /\ outcome.report[1].tag = "overview_header"
        /\ CountLines(outcome.report, "overview_header") = 1
        /\ (sub[1].st = "done" /\ Truthy(sub[1].val))
              => CountLines(outcome.report, "sentiment") = 1
        /\ (sub[2].st = "done" /\ "market_cap_percentage" \in DOMAIN sub[2].val)
              => CountLines(outcome.report, "dominance") = 1
        /\ (sub[3].st = "done" /\ Len(sub[3].val) > 0)
              => /\ CountLines(outcome.report, "whale_header") = 1
                 /\ CountLines(outcome.report, "whale") = Len(sub[3].val)
        /\ (sub[3].st = "raised" \/ yielded[3].st = "failed"
              \/ \A i \in 1..Len(yielded[3].msgs) : yielded[3].msgs[i].text = <<>>)
              => outcome.report[Len(outcome.report)].tag = "whale_none"

\* C1 witness: the handle is absent and both HTTP fetches came back empty,
\* and the invocation returned the header and the placeholder.
C1_Witness ==
    /\ Ended("overview")
    /\ telegram_client = None
    /\ sub[3].st = "raised"
    /\ ~Truthy(sub[1].val)
    /\ ~Truthy(sub[2].val)
    /\ outcome.kind = "return"
    /\ Len(outcome.report) = 2

\* C2: for hours < 1 or hours > 72 get_realtime_news raises FastMCPError
\* before anything else: the handle is not looked up and no iteration is
\* started, whether the handle is absent or ready; an invocation that got
\* past the check has hours in 1..72.
C2_HoursRejectedFirst ==
    /\ tool = "news" => hours \in 1..72
    /\ (Ended("news") /\ hours \notin 1..72) =>
          /\ outcome.kind = "raise"
          /\ outcome.exc = "FastMCPError"
          /\ outcome.msg = "hours"
          /\ lookups = 0
          /\ iters = 0
          /\ httpReqs = 0

\* C2 witness: hours = 73 rejected while the handle is ready.
C2_Witness ==
    /\ Ended("news")
    /\ hours = 73
    /\ telegram_client = Handle
    /\ Handle \in connected
    /\ outcome.kind = "raise"

\* C3 as stated: with the handle absent, get_market_overview and
\* get_realtime_news (valid hours) both end in a domain error.
C3_Original ==
    ((Ended("overview") \/ (Ended("news") /\ hours \in 1..72)) /\ telegram_client = None)
        => (outcome.kind = "raise" /\ outcome.exc = "FastMCPError")

\* C3 amended: with the handle absent (credentials missing, or the account
\* unauthorized at startup), get_realtime_news with valid hours raises the
\* domain error of _get_telegram_client without starting an iteration, while
\* get_market_overview raises nothing: the error of its whale-alert
\* sub-fetch is collected by gather and the report holds the placeholder.
C3_SessionNotReady ==
    /\ (Ended("news") /\ hours \in 1..72 /\ telegram_client = None) =>
          /\ outcome.kind = "raise"
          /\ outcome.exc = "FastMCPError"
          /\ outcome.msg = "no client"
          /\ iters = 0
    /\ (Ended("overview") /\ telegram_client = None) =>
          /\ sub[3].st = "raised"
          /\ sub[3].val = "FastMCPError"
          /\ iters = 0
          /\ outcome.kind = "return"
          /\ HasLine(outcome.report, "whale_none")
    /\ (tool \in {"news", "overview"} /\ telegram_client = None) => iters = 0

\* C3 witness: the account was unauthorized at startup (the handle is
\* connected, the global is None) and get_realtime_news(1) raised.
C3_Witness ==
    /\ Ended("news")
    /\ hours = 1
    /\ telegram_client = None
    /\ Handle \in connected
    /\ outcome.kind = "raise"
    /\ outcome.exc = "FastMCPError"

\* C4: an upstream failure never reaches the caller of get_market_overview
\* or get_realtime_news (the invocation returns a report or the placeholder
\* sentence, also when the iteration of a news channel fails); only
\* get_coin_details surfaces it, as a domain error.
C4_UpstreamNeverSurfaced ==
    /\ (Ended("overview") /\ yielded[3].st = "failed") => outcome.kind = "return"
    /\ (Ended("news") /\ Len(yielded) > 0
            /\ \E i \in 1..Len(yielded) : yielded[i].st = "failed")
          => outcome.kind = "return"
    /\ (Ended("coin") /\ Len(sub) > 0 /\ ~HttpOk(sub[1].val))
          => (outcome.kind = "raise" /\ outcome.exc = "FastMCPError")

\* the messages of msgs that have a text
WithText(msgs) == SelectSeq(msgs, LAMBDA m : m.text # <<>>)

\* the lines of a report that come from channel ch
OfChannel(report, ch) == SelectSeq(report, LAMBDA l : l.tag = "news" /\ l.ch = ch)

\* the place of a line's channel in the channel list
ChannelIndex(l) == CHOOSE c \in 1..Len(Channels) : Channels[c] = l.ch

\* C7: in the report of get_realtime_news the lines of the first channel all
\* precede the lines of the second, and each channel's lines are its
\* messages with text in the order the channel yielded them, whichever
\* iteration finished first and whatever the dates of the messages.
C7_ChannelOrder ==
    (Ended("news") /\ outcome.kind = "return") =>
        LET body == SelectSeq(outcome.report, LAMBDA l : l.tag = "news")
        IN  /\ Len(body) = Len(outcome.report) - 1
            /\ \A i, j \in 1..Len(body) :
                  i < j => ChannelIndex(body[i]) <= ChannelIndex(body[j])
            /\ \A c \in 1..Len(Channels) :
                  LET lines == OfChannel(outcome.report, Channels[c])
                      msgs == WithText(yielded[c].msgs)
                  IN  /\ Len(lines) = Len(msgs)
                      /\ \A k \in 1..Len(lines) :
                            /\ lines[k].a = msgs[k].date \div 2
                            /\ lines[k].b = CleanText(msgs[k].text)

\* C7 witness: the second channel finished first, every message of the first
\* channel is later than every message of the second, and the report holds
\* the lines of both.
C7_Witness ==
    /\ Ended("news")
    /\ outcome.kind = "return"
    /\ yielded[2].nth = 1
    /\ yielded[1].nth = 2
    /\ Len(OfChannel(outcome.report, Channels[1])) = 2
    /\ Len(OfChannel(outcome.report, Channels[2])) = 1
    /\ \A i \in 1..Len(yielded[1].msgs) : \A j \in 1..Len(yielded[2].msgs) :
          yielded[1].msgs[i].date > yielded[2].msgs[j].date

\* the response holds a coin that get_coin_details can render
Renderable(r) ==
    /\ r.net /\ r.status = 200 /\ r.valid
    /\ ("links" \in DOMAIN r.data /\ "homepage" \in DOMAIN r.data["links"])
          => Len(r.data["links"]["homepage"]) > 0

\* C9: get_coin_details raises nothing but FastMCPError and returns a report
\* only when its fetch succeeded: without the API key it raises before any
\* HTTP request; after a 404 response it raises the 'not found' error; after
\* any other failure (another status, a network error, a malformed body) a
\* fetch-failure error; on success it returns the four lines title, rank,
\* price, homepage.
C9_CoinDetails ==
    Ended("coin") =>
        /\ outcome.kind \in {"raise", "return"}
        /\ outcome.kind = "raise" => outcome.exc = "FastMCPError"
        /\ ~apiKey => (outcome.kind = "raise" /\ outcome.msg = "no api key" /\ httpReqs = 0)
        /\ apiKey =>
              LET r == sub[1].val
              IN  /\ httpReqs = 1
                  /\ (r.net /\ r.status = 404)
                        => (outcome.kind = "raise" /\ outcome.msg = "not found")
                  /\ (~Renderable(r) /\ ~(r.net /\ r.status = 404))
                        => (outcome.kind = "raise"
                            /\ outcome.msg \in {"fetch failed", "api error"})
                  /\ Renderable(r) <=> outcome.kind = "return"
                  /\ outcome.kind = "return" =>
                        /\ Len(outcome.report) = 4
                        /\ outcome.report[1].tag = "title"
                        /\ outcome.report[2].tag = "rank"
                        /\ outcome.report[3].tag \in {"price", "price_raw"}
                        /\ outcome.report[4].tag = "homepage"

\* C9 witness: a 404 response ended in the 'not found' error.
C9_Witness ==
    /\ Ended("coin")
    /\ apiKey
    /\ sub[1].val.status = 404
    /\ outcome.kind = "raise"
    /\ outcome.msg = "not found"

\* C10: at most one handle is connected at any time, the global handle is
\* the one startup left and no tool invocation changes it, and once the
\* lifespan has exited no handle that startup connected is still connected.
C10_OneHandleReleased ==
    /\ Cardinality(connected) <= 1
    /\ Cardinality(created) <= 1
    /\ life \in {"serving", "stopped"} => telegram_client = startupClient
    /\ life = "init" => telegram_client = None
    /\ life = "stopped" => connected = {}

(***************************************************************************)
(* Properties of the client.                                               *)
(***************************************************************************)
IsPrefix(s1, s2) == Len(s1) <= Len(s2) /\ \A i \in 1..Len(s1) : s1[i] = s2[i]

Count(evs, e) == Cardinality({i \in 1..Len(evs) : evs[i] = e})

\* the last iteration of the loop called process_query and is over
TurnOver == turnResult \in {"answer", "error"} /\ firstResp.got

\* the first part of the turn's first response is a function call
FirstPartCalls == Len(firstResp.parts) > 0 /\ firstResp.parts[1].fc

\* C5: a turn makes its calls in the order model, tool, model and never more:
\* at most one call_tool and at most two send_message, whatever the
\* responses hold.  A turn whose first response has no function call in its
\* first part is over after that one send_message and no call_tool.  A turn
\* whose first response has one there calls the tool that part names, once,
\* and, when it returns its answer, has made exactly one follow-up
\* send_message after it (a turn an exception cuts short stops where the
\* exception is raised).
C5_OneToolCallPerTurn ==
    /\ toolCalls <= 1
    /\ modelCalls <= 2
    /\ toolCalls = Count(events, "tool")
    /\ modelCalls = Count(events, "model")
    /\ IsPrefix(events, <<"model", "tool", "model">>)
    /\ toolCalls = 1 => (FirstPartCalls /\ calledTool = firstResp.parts[1].name)
    /\ (TurnOver /\ ~FirstPartCalls) => events = <<"model">>
    /\ (TurnOver /\ FirstPartCalls) => toolCalls = 1
    /\ (TurnOver /\ FirstPartCalls /\ turnResult = "answer")
          => events = <<"model", "tool", "model">>

\* C5 witness: the first response asked for two tool calls; the turn
\* returned its answer after one call_tool, of the first, and two send_message.
C5_Witness ==
    /\ turnResult = "answer"
    /\ Len(firstResp.parts) = 2
    /\ firstResp.parts[1].fc
    /\ firstResp.parts[2].fc
    /\ firstResp.parts[1].name # firstResp.parts[2].name
    /\ calledTool = firstResp.parts[1].name
    /\ toolCalls = 1
    /\ modelCalls = 2

\* C6: an iteration of chat_loop that ends in an exception leaves self.chat
\* None and the loop at its input (the loop ends on 'quit' alone); the turn
\* after it sends its query to a new chat session with an empty history.  A
\* turn that returns its answer leaves the session in place, and the turn
\* after it sends its query to that session, history kept.
C6_ExceptionResetsChat ==
    /\ turnResult = "error" => (cpc = "input" /\ chat = NoChat)
    /\ turnResult = "answer" => (cpc = "input" /\ chat.live /\ chat = chatAtEnd)
    /\ cpc = "exit" => turnResult \in {"quit", "none"}
    /\ (cpc = "send" /\ prevResult = "error")
          => (chat.live /\ chat.hist = 0 /\ chat.id = sessions /\ chat.id # chatAtEnd.id)
    /\ (cpc = "send" /\ prevResult = "answer") => (chat = chatAtEnd /\ chat.hist > 0)

\* C6 witness: a turn failed after its chat session had a history; the next
\* turn is about to send its query to a second, empty session.
C6_Witness ==
    /\ cpc = "send"
    /\ prevResult = "error"
    /\ chatAtEnd.live
    /\ chatAtEnd.hist > 0
    /\ chat.live
    /\ chat.id = 2
    /\ chat.hist = 0

(***************************************************************************)
(* Properties of the schema bridge.                                        *)
(***************************************************************************)
\* the step from a node to its i-th child: the key, or the place in the list
Step(t, i) ==
    IF t.kind = "dict" THEN [key |-> t.keys[i], idx |-> 0] ELSE [key |-> "", idx |-> i]

\* every node of t with the path to it; a dict is listed with its keys in
\* order, but for title and default when drop is set
RECURSIVE NodesAt(_, _, _)
NodesAt(t, path, drop) ==
    {[path |-> path, kind |-> t.kind, val |-> t.val,
      keys |-> IF drop
               THEN SelectSeq(t.keys, LAMBDA k : k \notin {"title", "default"})
               ELSE t.keys]}
        \cup UNION {NodesAt(t.kids[i], Append(path, Step(t, i)), drop) : i \in 1..Len(t.kids)}

\* no step of the path goes through a title or a default entry
Clean(path) == \A i \in 1..Len(path) : path[i].key \notin {"title", "default"}

\* C8: _remove_keys_recursively with {'title', 'default'} removes the dict
\* entries with these keys at every depth and nothing else: the nodes of the
\* result are the nodes of the schema that are not inside such an entry,
\* each at its path (every list item at its place), of its kind, with its
\* scalar value and its other keys in their order; and applying the
\* transform to its result changes nothing.
C8_RemoveKeys ==
    /\ bpc \in {"once", "twice"} =>
          NodesAt(once, <<>>, FALSE) = {n \in NodesAt(schema, <<>>, TRUE) : Clean(n.path)}
    /\ bpc = "twice" => twice = once

\* C8 witness: a default entry of a dict that is an item of a list was
\* removed, and the transform was applied twice.
C8_Witness ==
    /\ bpc = "twice"
    /\ schema.kind = "list"
    /\ once # schema
    /\ \E n \in NodesAt(schema, <<>>, FALSE) :
          /\ Len(n.path) = 2
          /\ n.path[1].idx = 1
          /\ n.path[2].key = "default"

====
